---------------------------- MODULE Spec2Model ----------------------------
(***************************************************************************)
(* The incremental vault statistics engine (FullVaultMetricsCollector,     *)
(* NoteMetricsCollector, FileMetricsCollector) and the word tokenizers     *)
(* (UnitTokenizer, MarkdownTokenizer) as a state machine.                  *)
(*                                                                         *)
(* JavaScript strings are TLA+ strings; a character is a string of length  *)
(* one.  The alphabet of the model is ASCII: the Cyrillic ranges of the    *)
(* NON_WORDS pattern are outside it.                                       *)
(***************************************************************************)
EXTENDS Integers, Sequences, FiniteSets, TLC

(***************************************************************************)
(* Bounds of the model.                                                    *)
(***************************************************************************)
\* processBacklog invocations that may be in flight at the same time
MaxDrains == 2
\* content revisions a file goes through
MaxRev == 2
\* change notifications and public update calls in one behaviour
MaxEvents == 2
\* content reads that fail in one behaviour
MaxFaults == 1

(***************************************************************************)
(* Strings.                                                                *)
(***************************************************************************)
CharAt(s, i) == SubSeq(s, i, i)

\* String.prototype.includes
Includes(hay, needle) ==
    \E i \in 0..(Len(hay) - Len(needle)) : SubSeq(hay, i + 1, i + Len(needle)) = needle

StartsWith(s, p) == Len(s) >= Len(p) /\ SubSeq(s, 1, Len(p)) = p

EndsWith(s, p) == Len(s) >= Len(p) /\ SubSeq(s, Len(s) - Len(p) + 1, Len(s)) = p

AllIn(s, set) == \A i \in 1..Len(s) : CharAt(s, i) \in set

LowerLetters ==
    {"a","b","c","d","e","f","g","h","i","j","k","l","m",
     "n","o","p","q","r","s","t","u","v","w","x","y","z"}

UpperLetters ==
    {"A","B","C","D","E","F","G","H","I","J","K","L","M",
     "N","O","P","Q","R","S","T","U","V","W","X","Y","Z"}

Digits == {"0","1","2","3","4","5","6","7","8","9"}

\* \w of the patterns
WordChars == LowerLetters \cup UpperLetters \cup Digits \cup {"_"}

LowerOf(c) ==
    CASE c = "A" -> "a" [] c = "B" -> "b" [] c = "C" -> "c" [] c = "D" -> "d"
      [] c = "E" -> "e" [] c = "F" -> "f" [] c = "G" -> "g" [] c = "H" -> "h"
      [] c = "I" -> "i" [] c = "J" -> "j" [] c = "K" -> "k" [] c = "L" -> "l"
      [] c = "M" -> "m" [] c = "N" -> "n" [] c = "O" -> "o" [] c = "P" -> "p"
      [] c = "Q" -> "q" [] c = "R" -> "r" [] c = "S" -> "s" [] c = "T" -> "t"
      [] c = "U" -> "u" [] c = "V" -> "v" [] c = "W" -> "w" [] c = "X" -> "x"
      [] c = "Y" -> "y" [] c = "Z" -> "z" [] OTHER -> c

\* String.prototype.toLowerCase: lower[i] is the lower-case form of the
\* first i characters
toLowerCase(s) ==
    LET lower[i \in 0..Len(s)] ==
            IF i = 0 THEN "" ELSE lower[i - 1] \o LowerOf(CharAt(s, i))
    IN  lower[Len(s)]

\* the j-th smallest element of a set of numbers
Nth(S, j) == CHOOSE a \in S : Cardinality({b \in S : b < a}) = j - 1

\* String.prototype.split with a one-character separator: the pieces lie
\* between consecutive cuts, the cuts being the separators and the two ends
SplitOn(s, sep) ==
    LET cuts == {0, Len(s) + 1} \cup {i \in 1..Len(s) : CharAt(s, i) = sep}
    IN  [j \in 1..(Cardinality(cuts) - 1) |->
            SubSeq(s, Nth(cuts, j) + 1, Nth(cuts, j + 1) - 1)]

\* String.prototype.substring(start, end), offsets from 0
Substring(s, start, end) ==
    LET lo == IF start < 0 THEN 0 ELSE IF start > Len(s) THEN Len(s) ELSE start
        hi == IF end < 0 THEN 0 ELSE IF end > Len(s) THEN Len(s) ELSE end
    IN  IF lo <= hi THEN SubSeq(s, lo + 1, hi) ELSE SubSeq(s, hi + 1, lo)

(***************************************************************************)
(* Results of calls that may throw.                                        *)
(***************************************************************************)
Ok(v) == [ok |-> TRUE, val |-> v]

Throw(e) == [ok |-> FALSE, val |-> e]

\* the receiver of a method called with no receiver
Undefined == "undefined"

\* the receiver of a method called on the tokenizer object
Bound == "MarkdownTokenizer"

(***************************************************************************)
(* The tokenizers.                                                         *)
(***************************************************************************)
unit_tokenize(content) == Ok(<< >>)

\* /^[^\w...]+$/
isNonWord(token) == Len(token) >= 1 /\ \A i \in 1..Len(token) : CharAt(token, i) \notin WordChars

\* /^\d+(\.\d+)?$/
isNumber(token) ==
    \/ Len(token) >= 1 /\ AllIn(token, Digits)
    \/ \E p \in 2..(Len(token) - 1) :
          /\ CharAt(token, p) = "."
          /\ AllIn(SubSeq(token, 1, p - 1), Digits)
          /\ AllIn(SubSeq(token, p + 1, Len(token)), Digits)

\* a string literal of the module cannot hold the grave accent (the backtick
\* of the patterns): the model's strings write it as a caret
Backtick == "^"

\* the pattern: three backticks, then \w+
isCodeBlockHeader(token) ==
    /\ Len(token) >= 4
    /\ SubSeq(token, 1, 3) = Backtick \o Backtick \o Backtick
    /\ AllIn(SubSeq(token, 4, Len(token)), WordChars)

\* the characters "." of a pattern does not match
LineTerminators == {"\n", "\r"}

\* strip(pattern, token): capture group 2 of the match, '' when there is none.
\* Every pattern is ^(P)?(.*?)(S)?$ : the optional prefix is taken when it is
\* there, the lazy middle grows until the rest is a whole suffix or empty.
\* lead is the length of the prefix P matches, trail that of the suffix S
\* matches in what follows the prefix.
strip(lead, trail, token) ==
    IF \E i \in 1..Len(token) : CharAt(token, i) \in LineTerminators
    THEN ""
    ELSE SubSeq(token, lead + 1, Len(token) - trail)

\* the length of the longest run of character c that starts string s
LeadRun(s, c) ==
    LET runs == {n \in 0..Len(s) : \A i \in 1..n : CharAt(s, i) = c}
    IN  CHOOSE n \in runs : \A m \in runs : m <= n

\* the length of the longest run of character c that ends string s
TrailRun(s, c) ==
    LET runs == {n \in 0..Len(s) : \A i \in 1..n : CharAt(s, Len(s) + 1 - i) = c}
    IN  CHOOSE n \in runs : \A m \in runs : m <= n

\* /^(==)?(.*?)(==)?$/
stripHighlights(this, token) ==
    IF this = Undefined THEN Throw("TypeError")
    ELSE LET lead == IF StartsWith(token, "==") THEN 2 ELSE 0
             rest == SubSeq(token, lead + 1, Len(token))
             trail == IF EndsWith(rest, "==") THEN 2 ELSE 0
         IN  Ok(strip(lead, trail, token))

\* /^(_+|\*+)?(.*?)(_+|\*+)?$/
stripFormatting(this, token) ==
    IF this = Undefined THEN Throw("TypeError")
    ELSE LET lead == IF LeadRun(token, "_") > 0 THEN LeadRun(token, "_")
                     ELSE LeadRun(token, "*")
             rest == SubSeq(token, lead + 1, Len(token))
             trail == IF TrailRun(rest, "_") > 0 THEN TrailRun(rest, "_")
                      ELSE TrailRun(rest, "*")
         IN  Ok(strip(lead, trail, token))

Punctuation == {Backtick, ".", ":", "\"", ",", "!", "?"}

\* STRIP_PUNCTUATION: one optional character of Punctuation on each side
stripPunctuation(this, token) ==
    IF this = Undefined THEN Throw("TypeError")
    ELSE LET lead == IF token # "" /\ CharAt(token, 1) \in Punctuation THEN 1 ELSE 0
             rest == SubSeq(token, lead + 1, Len(token))
             trail == IF rest # "" /\ CharAt(rest, Len(rest)) \in Punctuation THEN 1 ELSE 0
         IN  Ok(strip(lead, trail, token))

\* /^(\[\[)?(.*?)(\]\])?$/
stripWikiLinks(this, token) ==
    IF this = Undefined THEN Throw("TypeError")
    ELSE LET lead == IF StartsWith(token, "[[") THEN 2 ELSE 0
             rest == SubSeq(token, lead + 1, Len(token))
             trail == IF EndsWith(rest, "]]") THEN 2 ELSE 0
         IN  Ok(strip(lead, trail, token))

\* [token].map(f1).map(f2).map(f3).map(f4)[0]: Array.prototype.map calls each
\* callback with the receiver thisArg, which is undefined when map is given
\* no second argument.
\* The k-th callback of the chain, called on token.
StripCallback(k, thisArg, token) ==
    CASE k = 1 -> stripHighlights(thisArg, token)
      [] k = 2 -> stripFormatting(thisArg, token)
      [] k = 3 -> stripPunctuation(thisArg, token)
      [] OTHER -> stripWikiLinks(thisArg, token)

\* the chain from its k-th map on; r is what the maps before it produced, an
\* exception ends the chain
RECURSIVE StripChain(_, _, _)
StripChain(thisArg, r, k) ==
    IF k > 4 \/ ~r.ok THEN r
    ELSE StripChain(thisArg, StripCallback(k, thisArg, r.val), k + 1)

StripPass(thisArg, token) == StripChain(thisArg, Ok(token), 1)

\* the while (!isFixedPoint) loop; next is what the pass over token produced
RECURSIVE StripLoop(_, _, _)
StripLoop(thisArg, token, next) ==
    IF ~next.ok THEN next
    ELSE IF next.val = token THEN Ok(token)
    ELSE StripLoop(thisArg, next.val, StripPass(thisArg, next.val))

\* the strip methods are handed to map unbound (map(this.stripHighlights)),
\* so they run with no receiver
stripAll(token) ==
    IF token = "" THEN Ok(token) ELSE StripLoop(Undefined, token, StripPass(Undefined, token))

\* /[ \n\r\t\"\|,\(\)\[\]/]+/
WordBoundary == {" ", "\n", "\r", "\t", "\"", "|", ",", "(", ")", "[", "]", "/"}

Whitespace == {" ", "\n", "\r", "\t"}

\* the maximal runs of characters of s that are no boundary characters, in
\* their order
Runs(s) ==
    LET inside == {i \in 1..Len(s) : CharAt(s, i) \notin WordBoundary}
        starts == {i \in inside : i - 1 \notin inside}
        ends == {i \in inside : i + 1 \notin inside}
    IN  [j \in 1..Cardinality(starts) |-> SubSeq(s, Nth(starts, j), Nth(ends, j))]

\* String.prototype.split(WORD_BOUNDARY): a run of boundary characters is one
\* separator; a separator at the start or at the end of s leaves an empty
\* piece there, and the empty string splits into one empty piece
SplitWords(s) ==
    IF s = "" THEN <<"">>
    ELSE (IF CharAt(s, 1) \in WordBoundary THEN <<"">> ELSE << >>)
            \o Runs(s)
            \o (IF CharAt(s, Len(s)) \in WordBoundary THEN <<"">> ELSE << >>)

\* the three filters before the map
Candidates(content) ==
    SelectSeq(SplitWords(content),
              LAMBDA t : ~isNonWord(t) /\ ~isNumber(t) /\ ~isCodeBlockHeader(t))

\* the outcome of a map over a sequence whose callback produced rs: the
\* first exception ends the map, otherwise the array of the values
MapOutcome(rs) ==
    IF \E i \in 1..Len(rs) : ~rs[i].ok
    THEN rs[CHOOSE i \in 1..Len(rs) : ~rs[i].ok /\ \A j \in 1..(i - 1) : rs[j].ok]
    ELSE Ok([i \in 1..Len(rs) |-> rs[i].val])

\* filter(token => token.length > 0) on what the map produced
NonEmpty(r) == IF r.ok THEN Ok(SelectSeq(r.val, LAMBDA t : t # "")) ELSE r

\* map(token => this.stripAll(token))
MapStrip(tokens) == MapOutcome([i \in 1..Len(tokens) |-> stripAll(tokens[i])])

markdown_tokenize(content) ==
    IF AllIn(content, Whitespace) THEN Ok(<< >>) ELSE NonEmpty(MapStrip(Candidates(content)))

(***************************************************************************)
(* The vault: the corpus provider and the metadata cache, seen through the *)
(* calls the collector makes.                                              *)
(***************************************************************************)
\* the paths of the corpus
Keys == {"A.md", "archive/old.MD", "B.png", "C.md"}

\* the order in which vault.getFiles() lists them
FilesOrder == <<"A.md", "archive/old.MD", "B.png", "C.md">>

\* a folder of the corpus
FolderPath == "archive"

\* the files the vault holds when the collector is built
InitialCorpora == {Keys, {"A.md", "B.png", "C.md"}}

\* the values of the excluded-directories setting
ExcludeConfigs == {"", "archive", "archives"}

\* TFile.extension: what follows the last dot of the file's name
Extension(path) ==
    LET segs == SplitOn(path, "/")
        parts == SplitOn(segs[Len(segs)], ".")
    IN  IF Len(parts) = 1 THEN "" ELSE parts[Len(parts)]

\* the raw content of a file at a revision
Content(path, r) ==
    CASE path = "A.md" /\ r = 1 -> "Hello world."
      [] path = "A.md" -> "**_word_** 3.14 is pi."
      [] path = "C.md" /\ r = 1 -> "One two three four."
      [] path = "C.md" -> "==x== and [[Page Name]]"
      [] path = "archive/old.MD" -> "# Old\n<b>\n%%\nnote"
      [] OTHER -> ""

\* file.stat.size
Size(path, r) == IF path = "B.png" THEN 7 + r ELSE Len(Content(path, r))

\* metadata.links.length, 0 for a cache with no links
LinkCount(path, r) ==
    CASE path = "A.md" /\ r = 1 -> 5
      [] path = "A.md" -> 1
      [] path = "archive/old.MD" -> 2
      [] OTHER -> 0

\* metadata.tags.length, 0 for a cache with no tags
TagCount(path, r) ==
    CASE path = "A.md" -> r
      [] path = "archive/old.MD" -> 1
      [] OTHER -> 0

\* metadata.sections: the typed regions, offsets into the raw content
Sections(path, r) ==
    CASE path = "A.md" /\ r = 1 -> <<[type |-> "paragraph", start |-> 0, end |-> 12]>>
      [] path = "A.md" -> <<[type |-> "paragraph", start |-> 0, end |-> 22]>>
      [] path = "C.md" /\ r = 1 -> <<[type |-> "paragraph", start |-> 0, end |-> 19]>>
      [] path = "C.md" -> <<[type |-> "paragraph", start |-> 0, end |-> 23]>>
      [] path = "archive/old.MD" -> <<[type |-> "heading", start |-> 0, end |-> 5],
                                      [type |-> "html", start |-> 6, end |-> 9],
                                      [type |-> "widget", start |-> 10, end |-> 12],
                                      [type |-> "paragraph", start |-> 13, end |-> 17]>>
      [] OTHER -> << >>

(***************************************************************************)
(* Metrics records (FullVaultMetrics).                                     *)
(***************************************************************************)
\* new FullVaultMetrics()
ZeroMetrics ==
    [files |-> 0, notes |-> 0, attachments |-> 0, size |-> 0,
     links |-> 0, words |-> 0, tags |-> 0, quality |-> 0]

\* a null passed where a record is expected
Null == [null |-> TRUE]

IsNull(m) == DOMAIN m = {"null"}

\* vaultMetrics.dec(m): the field-wise difference.  The quality of the total
\* is derived from its links and notes and is carried as 0 here.
dec(total, m) ==
    IF IsNull(m) THEN total
    ELSE [files |-> total.files - m.files, notes |-> total.notes - m.notes,
          attachments |-> total.attachments - m.attachments,
          size |-> total.size - m.size, links |-> total.links - m.links,
          words |-> total.words - m.words, tags |-> total.tags - m.tags,
          quality |-> 0]

\* vaultMetrics.inc(m): the field-wise sum
inc(total, m) ==
    IF IsNull(m) THEN total
    ELSE [files |-> total.files + m.files, notes |-> total.notes + m.notes,
          attachments |-> total.attachments + m.attachments,
          size |-> total.size + m.size, links |-> total.links + m.links,
          words |-> total.words + m.words, tags |-> total.tags + m.tags,
          quality |-> 0]

(***************************************************************************)
(* The state.                                                              *)
(***************************************************************************)
VARIABLES
    data,                \* Map<string, FullVaultMetrics>: a function on the stored keys
    backlog,             \* Array<string>
    excludeDirectories,  \* the excluded-directories setting
    vaultMetrics,        \* the running total
    started,             \* start() has registered the handlers and the timer
    vault,               \* vault[k]: path k resolves to a TFile
    indexed,             \* indexed[k]: the metadata cache holds k's parsed structure
    rev,                 \* rev[k]: the revision of k's content
    pc,                  \* pc[d]: where processBacklog invocation d stands
    cur,                 \* cur[d]: the collection invocation d is suspended in
    events,              \* notifications and update calls so far
    faults,              \* content reads that failed so far
    last,                \* the operation of the last step
    input,               \* the argument of the last call of markdown_tokenize
    output               \* what that call returned or threw

vars ==
    <<data, backlog, excludeDirectories, vaultMetrics, started, vault, indexed,
      rev, pc, cur, events, faults, last, input, output>>

\* the state of the collector
collector ==
    <<data, backlog, excludeDirectories, vaultMetrics, started, vault, indexed,
      rev, pc, cur, events, faults, last>>

\* the last call of the exported tokenizer function
tok == <<input, output>>

world == <<vault, indexed, rev>>

Drains == 1..MaxDrains

NoCur == [path |-> "", size |-> 0, links |-> 0, mrev |-> 0]

Range(seq) == {seq[i] : i \in 1..Len(seq)}

Init ==
    /\ data = << >>
    /\ backlog = << >>
    /\ excludeDirectories \in ExcludeConfigs
    /\ vaultMetrics = ZeroMetrics
    /\ started = FALSE
    /\ vault \in {[k \in Keys |-> k \in c] : c \in InitialCorpora}
    /\ indexed = vault
    /\ rev = [k \in Keys |-> 1]
    /\ pc = [d \in Drains |-> "idle"]
    /\ cur = [d \in Drains |-> NoCur]
    /\ events = 0
    /\ faults = 0
    /\ last = [op |-> "new", key |-> "", old |-> ""]
    /\ input = ""
    /\ output = Ok(<< >>)

(***************************************************************************)
(* FullVaultMetricsCollector.                                              *)
(***************************************************************************)
\* push without the contains test
push_NoCheck(bl, isFolder, path) == IF isFolder THEN bl ELSE Append(bl, path)

\* push(fileOrPath): a folder is dropped, a path is appended unless queued
push(bl, isFolder, path) ==
    IF isFolder THEN bl
    ELSE IF path \in Range(bl) THEN bl ELSE Append(bl, path)

\* the key is taken from the end of the backlog
shift_Pop(bl) == [path |-> bl[Len(bl)], rest |-> SubSeq(bl, 1, Len(bl) - 1)]

\* the head of the backlog is read and left in place
shift_Peek(bl) == [path |-> Head(bl), rest |-> bl]

\* this.backlog.shift() on a backlog that is not empty: the key it returns
\* and the backlog it leaves
shift(bl) == [path |-> Head(bl), rest |-> Tail(bl)]

\* path.split("/").some((dir) => setting.includes(dir))
someDirIncluded(setting, path) ==
    LET dirs == SplitOn(path, "/")
    IN  \E i \in 1..Len(dirs) : Includes(setting, dirs[i])

\* the paths of the corpus the test matches, for each value of the setting
Excluded == [setting \in ExcludeConfigs |-> {k \in Keys : someDirIncluded(setting, k)}]

\* path.split("/").some((dir) => this.excludeDirectories.includes(dir))
isExcluded(path) == path \in Excluded[excludeDirectories]

\* the loop without the exclusion test
shouldSkip_Never(path) == FALSE

\* the test of line 83: (path == null) || (the path is excluded); shift()
\* yields no null from a backlog that is not empty
shouldSkip(path) == isExcluded(path)

\* the await of line 91 outside any try: a rejection ends processBacklog
afterAwait_Uncaught(outcome) == IF outcome = "threw" THEN "idle" ELSE "loop"

\* where processBacklog stands once the await of line 91 has settled: the
\* try/catch of lines 90-97 takes a rejection, the loop goes on either way
afterAwait(outcome) == "loop"

\* getFileType comparing the extension as it is written
getFileType_CaseSensitive(path) == IF Extension(path) = "md" THEN "Note" ELSE "Attachment"

\* getFileType(file)
getFileType(path) == IF toLowerCase(Extension(path)) = "md" THEN "Note" ELSE "Attachment"

\* getFileType of each file of the corpus
FileType == [k \in Keys |-> getFileType(k)]

\* update that does not take the key's old record out of the total
update_NoDec(dt, total, key, metrics) ==
    LET d1 == IF IsNull(metrics)
              THEN [k \in DOMAIN dt \ {key} |-> dt[k]]
              ELSE [k \in DOMAIN dt \cup {key} |-> IF k = key THEN metrics ELSE dt[k]]
    IN  [data |-> d1, total |-> inc(total, metrics)]

\* update(key, metrics): the map and the total after the call
update(dt, total, key, metrics) ==
    LET old == IF key \in DOMAIN dt THEN dt[key] ELSE ZeroMetrics
        t1 == dec(total, old)
        d1 == IF IsNull(metrics)
              THEN [k \in DOMAIN dt \ {key} |-> dt[k]]
              ELSE [k \in DOMAIN dt \cup {key} |-> IF k = key THEN metrics ELSE dt[k]]
    IN  [data |-> d1, total |-> inc(t1, metrics)]

\* the outcomes of metadataCache.getFileCache(file) for a file the vault
\* resolved: the parsed structure when the cache holds it, else null or an
\* exception
FileCacheOutcomes(path) == IF indexed[path] THEN {"meta"} ELSE {"null", "throws"}

\* collect with no try/catch around getFileCache
cachedMetadata_Uncaught(c) == c

\* lines 134-144 of collect: what metadata holds after the try/catch, for
\* the outcome c of getFileCache
cachedMetadata(c) == IF c = "throws" THEN "null" ELSE c

\* FileMetricsCollector.collect
FileMetrics(path) ==
    [files |-> 1, notes |-> 0, attachments |-> 1, size |-> Size(path, rev[path]),
     links |-> 0, words |-> 0, tags |-> 0, quality |-> 0]

\* NoteMetricsCollector.TOKENIZERS.get(sectionType)
Tokenizer(sectionType) ==
    CASE sectionType \in {"paragraph", "heading", "list", "blockquote", "callout"} -> "markdown"
      [] sectionType \in {"table", "yaml", "code", "math", "thematicBreak", "html", "text",
                          "element", "footnoteDefinition", "definition", "comment"} -> "unit"
      [] OTHER -> "none"

\* the callback of sections.map: the tokens of one section, or the exception
\* tokens.length of what tokenize returned
TokenCount(tokens) == IF tokens.ok THEN Ok(Len(tokens.val)) ELSE tokens

\* the callback of sections.map: the tokens of one section, or the exception
SectionWords(content, section) ==
    IF Tokenizer(section.type) = "none" THEN Ok(0)
    ELSE TokenCount(IF Tokenizer(section.type) = "markdown"
                    THEN markdown_tokenize(Substring(content, section.start, section.end))
                    ELSE unit_tokenize(Substring(content, section.start, section.end)))

\* reduce((a, b) => a + b, 0) over the first i elements of counts
RECURSIVE Reduce(_, _)
Reduce(counts, i) == IF i = 0 THEN 0 ELSE Reduce(counts, i - 1) + counts[i]

\* the reduce on what sections.map produced
ReduceOutcome(r) == IF r.ok THEN Ok(Reduce(r.val, Len(r.val))) ELSE r

\* sections.map(...).reduce((a, b) => a + b, 0): the first exception ends it
SumWords(content, sections) ==
    ReduceOutcome(MapOutcome([i \in 1..Len(sections) |-> SectionWords(content, sections[i])]))

\* the catch callback: an exception becomes 0 words
CatchZero(w) == IF w.ok THEN w.val ELSE 0

\* cachedRead(file).then(...).catch(...): the words of a note. readOk: the
\* read was fulfilled with content; an exception in the then callback and a
\* rejected read both end in the catch callback, which returns 0.
Words(readOk, content, sections) ==
    IF ~readOk THEN 0 ELSE CatchZero(SumWords(content, sections))

\* the words collect counts for note k when it reads the content of revision
\* r with the sections of revision mr, the read being fulfilled (ok) or not
WordsRead ==
    [k \in Keys, r \in 1..MaxRev, mr \in 1..MaxRev, ok \in BOOLEAN |->
        Words(ok, Content(k, r), Sections(k, mr))]

\* NoteMetricsCollector.collect up to its await: size and links are taken
\* before the content is read
NoteStart(path) ==
    [path |-> path, size |-> Size(path, rev[path]),
     links |-> LinkCount(path, rev[path]), mrev |-> rev[path]]

\* NoteMetricsCollector.collect with no catch on the read: a failed read
\* yields no record
NoteMetrics_NoCatch(c, readOk, r) ==
    IF ~readOk THEN Null
    ELSE [files |-> 1, notes |-> 1, attachments |-> 0, size |-> c.size, links |-> c.links,
          words |-> WordsRead[c.path, r, c.mrev, readOk],
          tags |-> TagCount(c.path, c.mrev), quality |-> c.links]

\* NoteMetricsCollector.collect after its await, which read the content of
\* revision r
NoteMetrics(c, readOk, r) ==
    [files |-> 1, notes |-> 1, attachments |-> 0, size |-> c.size, links |-> c.links,
     words |-> WordsRead[c.path, r, c.mrev, readOk],
     tags |-> TagCount(c.path, c.mrev), quality |-> c.links]

\* processBacklog applying whatever collect returned, null included
applyCollected_Always(dt, total, path, metrics) == update(dt, total, path, metrics)

\* lines 92-94 of processBacklog: a record is applied, null is not
applyCollected(dt, total, path, metrics) ==
    IF ~IsNull(metrics) THEN update(dt, total, path, metrics)
    ELSE [data |-> dt, total |-> total]

\* One iteration of the while loop of processBacklog, from its test to its
\* first await or its exit.
Iterate(d) ==
    IF backlog = << >>
    THEN /\ pc' = [pc EXCEPT ![d] = "idle"]
         /\ last' = [op |-> "exit", key |-> "", old |-> ""]
         /\ UNCHANGED <<data, backlog, vaultMetrics, cur>>
    ELSE LET path == shift(backlog).path IN
         /\ backlog' = shift(backlog).rest
         /\ IF shouldSkip(path)
            THEN /\ pc' = [pc EXCEPT ![d] = "idle"]
                 /\ last' = [op |-> "excluded", key |-> path, old |-> ""]
                 /\ UNCHANGED <<data, vaultMetrics, cur>>
            ELSE IF ~vault[path]
            THEN /\ pc' = [pc EXCEPT ![d] = "loop"]
                 /\ last' = [op |-> "nofile", key |-> path, old |-> ""]
                 /\ UNCHANGED <<data, vaultMetrics, cur>>
            ELSE \E c \in FileCacheOutcomes(path) :
                 IF cachedMetadata(c) = "throws"
                 THEN /\ pc' = [pc EXCEPT ![d] = afterAwait("threw")]
                      /\ last' = [op |-> "escaped", key |-> path, old |-> ""]
                      /\ UNCHANGED <<data, vaultMetrics, cur>>
                 ELSE IF cachedMetadata(c) = "null"
                 THEN LET r == applyCollected(data, vaultMetrics, path, Null) IN
                      /\ data' = r.data
                      /\ vaultMetrics' = r.total
                      /\ pc' = [pc EXCEPT ![d] = "loop"]
                      /\ last' = [op |-> c, key |-> path, old |-> ""]
                      /\ UNCHANGED cur
                 ELSE IF FileType[path] = "Attachment"
                 THEN LET r == applyCollected(data, vaultMetrics, path, FileMetrics(path)) IN
                      /\ data' = r.data
                      /\ vaultMetrics' = r.total
                      /\ pc' = [pc EXCEPT ![d] = "loop"]
                      /\ last' = [op |-> "attachment", key |-> path, old |-> ""]
                      /\ UNCHANGED cur
                 ELSE /\ pc' = [pc EXCEPT ![d] = "reading"]
                      /\ cur' = [cur EXCEPT ![d] = NoteStart(path)]
                      /\ last' = [op |-> "reading", key |-> path, old |-> ""]
                      /\ UNCHANGED <<data, vaultMetrics>>

\* the timer of start() calls processBacklog; a new invocation takes the
\* first free slot
Tick(d) ==
    /\ started
    /\ pc[d] = "idle"
    /\ \A e \in Drains : e < d => pc[e] # "idle"
    /\ Iterate(d)
    /\ UNCHANGED <<excludeDirectories, started, world, events, faults, tok>>

\* the loop goes on after an iteration
Continue(d) ==
    /\ pc[d] = "loop"
    /\ Iterate(d)
    /\ UNCHANGED <<excludeDirectories, started, world, events, faults, tok>>

\* The content read of invocation d completes: fulfilled with the content the
\* file has now ("ok"), rejected ("rejected"), or cachedRead threw when it
\* was called ("threw": the exception leaves collect and is caught in
\* processBacklog).  The read of a file that is gone fails; the other failed
\* reads are counted.
ReadDone(d, outcome) ==
    /\ pc[d] = "reading"
    /\ outcome = "ok" => vault[cur[d].path]
    /\ outcome # "ok" => faults < MaxFaults \/ ~vault[cur[d].path]
    /\ faults' = IF outcome = "ok" \/ ~vault[cur[d].path] THEN faults ELSE faults + 1
    /\ LET path == cur[d].path
           metrics == NoteMetrics(cur[d], outcome = "ok", rev[path])
           r == IF outcome = "threw" THEN [data |-> data, total |-> vaultMetrics]
                ELSE applyCollected(data, vaultMetrics, path, metrics)
       IN  /\ data' = r.data
           /\ vaultMetrics' = r.total
           /\ last' = [op |-> outcome, key |-> path, old |-> ""]
    /\ pc' = [pc EXCEPT ![d] = afterAwait(outcome)]
    /\ cur' = [cur EXCEPT ![d] = NoCur]
    /\ UNCHANGED <<backlog, excludeDirectories, started, world, events, tok>>

\* this.vault.getFiles().forEach(file => this.push(file))
RECURSIVE PushAll(_, _, _)
PushAll(bl, files, i) ==
    IF i > Len(files) THEN bl ELSE PushAll(push(bl, FALSE, files[i]), files, i + 1)

\* start() that keeps the map and the total
start_NoClear ==
    /\ ~started
    /\ started' = TRUE
    /\ backlog' = PushAll(<< >>, SelectSeq(FilesOrder, LAMBDA k : vault[k]), 1)
    /\ last' = [op |-> "start", key |-> "", old |-> ""]
    /\ UNCHANGED <<data, vaultMetrics, excludeDirectories, world, pc, cur, events, faults, tok>>

\* start(): the handlers and the timer are registered, the map, the backlog
\* and the total are reset, every file of the vault is pushed
start ==
    /\ ~started
    /\ started' = TRUE
    /\ data' = << >>
    /\ vaultMetrics' = ZeroMetrics
    /\ backlog' = PushAll(<< >>, SelectSeq(FilesOrder, LAMBDA k : vault[k]), 1)
    /\ last' = [op |-> "start", key |-> "", old |-> ""]
    /\ UNCHANGED <<excludeDirectories, world, pc, cur, events, faults, tok>>

\* a notification is delivered to a handler start() registered
Notified ==
    /\ started
    /\ events < MaxEvents
    /\ events' = events + 1

\* vault "create": onfilecreated(file)
onfilecreated(k) ==
    /\ Notified
    /\ ~vault[k]
    /\ vault' = [vault EXCEPT ![k] = TRUE]
    /\ backlog' = push(backlog, FALSE, k)
    /\ last' = [op |-> "create", key |-> k, old |-> ""]
    /\ UNCHANGED <<data, excludeDirectories, vaultMetrics, started, indexed, rev, pc, cur, faults, tok>>

\* vault "create" for a folder: onfilecreated(folder)
onfoldercreated ==
    /\ Notified
    /\ backlog' = push(backlog, TRUE, FolderPath)
    /\ last' = [op |-> "createfolder", key |-> FolderPath, old |-> ""]
    /\ UNCHANGED <<data, excludeDirectories, vaultMetrics, started, world, pc, cur, faults, tok>>

\* vault "modify": the content changes, onfilemodified(file)
onfilemodified(k) ==
    /\ Notified
    /\ vault[k]
    /\ rev[k] < MaxRev
    /\ rev' = [rev EXCEPT ![k] = rev[k] + 1]
    /\ backlog' = push(backlog, FALSE, k)
    /\ last' = [op |-> "modify", key |-> k, old |-> ""]
    /\ UNCHANGED <<data, excludeDirectories, vaultMetrics, started, vault, indexed, pc, cur, faults, tok>>

\* metadataCache "resolve" and "changed": the cache holds the file's parsed
\* structure, onfilemodified(file)
oncachechanged(k) ==
    /\ Notified
    /\ vault[k]
    /\ indexed' = [indexed EXCEPT ![k] = TRUE]
    /\ backlog' = push(backlog, FALSE, k)
    /\ last' = [op |-> "changed", key |-> k, old |-> ""]
    /\ UNCHANGED <<data, excludeDirectories, vaultMetrics, started, vault, rev, pc, cur, faults, tok>>

\* vault "delete": onfiledeleted(file)
onfiledeleted(k) ==
    /\ Notified
    /\ vault[k]
    /\ vault' = [vault EXCEPT ![k] = FALSE]
    /\ indexed' = [indexed EXCEPT ![k] = FALSE]
    /\ backlog' = push(backlog, FALSE, k)
    /\ last' = [op |-> "delete", key |-> k, old |-> ""]
    /\ UNCHANGED <<data, excludeDirectories, vaultMetrics, started, rev, pc, cur, faults, tok>>

\* onfilerenamed that pushes the new path only
onfilerenamed_NewOnly(k, oldPath) ==
    /\ started
    /\ events < MaxEvents
    /\ events' = events + 1
    /\ k # oldPath
    /\ vault[oldPath]
    /\ ~vault[k]
    /\ vault' = [vault EXCEPT ![k] = TRUE, ![oldPath] = FALSE]
    /\ indexed' = [indexed EXCEPT ![k] = indexed[oldPath], ![oldPath] = FALSE]
    /\ backlog' = push(backlog, FALSE, k)
    /\ last' = [op |-> "rename", key |-> k, old |-> oldPath]
    /\ UNCHANGED <<data, excludeDirectories, vaultMetrics, started, rev, pc, cur, faults, tok>>

\* vault "rename": onfilerenamed(file, oldPath); the file is now at path k
onfilerenamed(k, oldPath) ==
    /\ Notified
    /\ k # oldPath
    /\ vault[oldPath]
    /\ ~vault[k]
    /\ vault' = [vault EXCEPT ![k] = TRUE, ![oldPath] = FALSE]
    /\ indexed' = [indexed EXCEPT ![k] = indexed[oldPath], ![oldPath] = FALSE]
    /\ backlog' = push(push(backlog, FALSE, k), FALSE, oldPath)
    /\ last' = [op |-> "rename", key |-> k, old |-> oldPath]
    /\ UNCHANGED <<data, excludeDirectories, vaultMetrics, started, rev, pc, cur, faults, tok>>

\* the records a caller of the public update passes
UpdateInputs ==
    {Null,
     [files |-> 1, notes |-> 1, attachments |-> 0, size |-> 3,
      links |-> 2, words |-> 4, tags |-> 1, quality |-> 2]}

\* a call of the public update(key, metrics)
updateCall(k, m) ==
    /\ events < MaxEvents
    /\ events' = events + 1
    /\ LET r == update(data, vaultMetrics, k, m)
       IN  /\ data' = r.data
           /\ vaultMetrics' = r.total
    /\ last' = [op |-> IF IsNull(m) THEN "updatenull"
                         ELSE IF last.op \in {"update", "again"} /\ last.key = k /\ data[k] = m
                         THEN "again" ELSE "update",
                key |-> k, old |-> ""]
    /\ UNCHANGED <<backlog, excludeDirectories, started, world, pc, cur, faults, tok>>

Next ==
    \/ start
    \/ \E k \in Keys : onfilecreated(k)
    \/ onfoldercreated
    \/ \E k \in Keys : onfilemodified(k)
    \/ \E k \in Keys : oncachechanged(k)
    \/ \E k \in Keys : onfiledeleted(k)
    \/ \E k \in Keys, oldPath \in Keys : onfilerenamed(k, oldPath)
    \/ \E k \in Keys, m \in UpdateInputs : updateCall(k, m)
    \/ \E d \in Drains : Tick(d)
    \/ \E d \in Drains : Continue(d)
    \/ \E d \in Drains, outcome \in {"ok", "rejected", "threw"} : ReadDone(d, outcome)

Spec == Init /\ [][Next]_vars

\* The collector driven by its timer and the notifications alone: nothing
\* but processBacklog calls update.
CollectorNext ==
    \/ start
    \/ \E k \in Keys : onfilecreated(k)
    \/ onfoldercreated
    \/ \E k \in Keys : onfilemodified(k)
    \/ \E k \in Keys : oncachechanged(k)
    \/ \E k \in Keys : onfiledeleted(k)
    \/ \E k \in Keys, oldPath \in Keys : onfilerenamed(k, oldPath)
    \/ \E d \in Drains : Tick(d)
    \/ \E d \in Drains : Continue(d)
    \/ \E d \in Drains, outcome \in {"ok", "rejected", "threw"} : ReadDone(d, outcome)

CollectorSpec == Init /\ [][CollectorNext]_vars

\* The collector with content reads that complete: every cachedRead returns
\* a promise that is fulfilled or rejected.
LiveNext ==
    \/ start
    \/ \E k \in Keys : onfilecreated(k)
    \/ onfoldercreated
    \/ \E k \in Keys : onfilemodified(k)
    \/ \E k \in Keys : oncachechanged(k)
    \/ \E k \in Keys : onfiledeleted(k)
    \/ \E k \in Keys, oldPath \in Keys : onfilerenamed(k, oldPath)
    \/ \E d \in Drains : Tick(d)
    \/ \E d \in Drains : Continue(d)
    \/ \E d \in Drains, outcome \in {"ok", "rejected"} : ReadDone(d, outcome)

\* the collector built on the whole corpus with a directory of it excluded
LiveInit == Init /\ (\A k \in Keys : vault[k]) /\ excludeDirectories = FolderPath

\* The timer of start() keeps firing (setInterval, line 62), a running
\* invocation goes on with its loop, and every read completes.
LiveSpec ==
    /\ LiveInit
    /\ [][LiveNext]_vars
    /\ WF_vars(\E d \in Drains : Tick(d))
    /\ \A d \in Drains : WF_vars(Continue(d))
    /\ \A d \in Drains : WF_vars(\E outcome \in {"ok", "rejected"} : ReadDone(d, outcome))

(***************************************************************************)
(* The exported tokenizer function, called on its own.                     *)
(***************************************************************************)
MaxInputLen == 2

\* the characters the generated inputs are made of
InputChars == {"a", "3", "*", "_", "=", ".", " ", "["}

\* the strings of at most n characters of InputChars
RECURSIVE StringsUpTo(_)
StringsUpTo(n) ==
    IF n = 0 THEN {""}
    ELSE StringsUpTo(n - 1) \cup {s \o c : s \in StringsUpTo(n - 1), c \in InputChars}

\* the arguments markdown_tokenize is called with
TokenizerInputs ==
    StringsUpTo(MaxInputLen) \cup {"**_word_**", "==x==", "[[Page Name]]", "3.14 is pi."}

\* a call markdown_tokenize(s)
tokenizeCall(s) ==
    /\ input' = s
    /\ output' = markdown_tokenize(s)
    /\ UNCHANGED collector

TokNext == \E s \in TokenizerInputs : tokenizeCall(s)

TokSpec == Init /\ [][TokNext]_vars

(***************************************************************************)
(* Properties.                                                             *)
(***************************************************************************)
SummedFields == {"files", "notes", "attachments", "size", "links", "words", "tags"}

\* the sum of field f over the records stored under the keys of S
RECURSIVE SumField(_, _, _)
SumField(dt, S, f) ==
    IF S = {} THEN 0
    ELSE LET k == CHOOSE x \in S : TRUE
         IN  dt[k][f] + SumField(dt, S \ {k}, f)

TotalIsSum(dt, total) == \A f \in SummedFields : total[f] = SumField(dt, DOMAIN dt, f)

Count(seq, x) == Cardinality({i \in 1..Len(seq) : seq[i] = x})

\* C1: in every reachable state the files, notes, attachments, size, links,
\* words and tags of the running total are the field-wise sums of the
\* records stored in the map.
C1_TotalIsFieldwiseSum == TotalIsSum(data, vaultMetrics)

\* two records are stored and counted, the second just applied by a drain
C1_Witness ==
    /\ Cardinality(DOMAIN data) >= 2
    /\ vaultMetrics.files >= 2
    /\ vaultMetrics.size > 0
    /\ last.op \in {"ok", "attachment"}

\* an iteration of invocation d that starts at the loop test
LoopStep(d) == Tick(d) \/ Continue(d)

\* C2: an invocation that dequeues an excluded key while more keys are queued
\* skips only that key: it goes on with the loop and does not end while the
\* backlog is not empty.
C2_ExclusionSkipsOneKey ==
    [][\A d \in Drains :
          (LoopStep(d) /\ backlog # << >> /\ isExcluded(Head(backlog)) /\ Tail(backlog) # << >>)
             => pc'[d] = "loop"]_vars

FailureOps == {"threw", "rejected", "throws"}

C4_BacklogHasNoDuplicates == \A i, j \in 1..Len(backlog) : backlog[i] = backlog[j] => i = j

\* a notification pushed a key that was queued already: push appends, so a key
\* that is not the last element was there before
C4_Witness ==
    /\ last.op \in {"modify", "changed", "delete"}
    /\ Len(backlog) >= 2
    /\ backlog[1] = last.key

\* C5: no step but a public update call stores, replaces or removes the record
\* of a key the exclusion rule matches, no invocation collects such a key, and
\* the step that dequeues it changes neither the map nor the total.
C5_ExcludedKeyIsNeverRecorded ==
    /\ [](\A d \in Drains : pc[d] = "reading" => ~isExcluded(cur[d].path))
    /\ [][/\ \A k \in Keys :
               (isExcluded(k) /\ last'.op \notin {"update", "again", "updatenull", "start"})
                  => /\ (k \in DOMAIN data') = (k \in DOMAIN data)
                     /\ k \in DOMAIN data => data'[k] = data[k]
          /\ (LET k == IF backlog = << >> THEN "" ELSE Head(backlog)
              IN  (k # "" /\ isExcluded(k) /\ backlog' = Tail(backlog))
                     => data' = data /\ vaultMetrics' = vaultMetrics)]_vars

\* an excluded key was dequeued while other keys are recorded
C5_Witness ==
    /\ last.op = "excluded"
    /\ DOMAIN data # {}
    /\ last.key \notin DOMAIN data

\* C6: the step that dequeues a key that resolves to no file, or whose
\* collection returns null, leaves the map and the total as they were.
C6_UnresolvedKeyLeavesRecord ==
    [][last'.op \in {"nofile", "null", "throws"} /\ backlog' # backlog
          => data' = data /\ vaultMetrics' = vaultMetrics]_vars

\* a deleted file's key was dequeued and its record is still stored and counted
C6_Witness ==
    /\ last.op = "nofile"
    /\ last.key \in DOMAIN data
    /\ ~vault[last.key]
    /\ vaultMetrics.files = Cardinality(DOMAIN data)

\* the records update is called with
Records ==
    UpdateInputs \cup {FileMetrics(k) : k \in Keys}
       \cup {NoteMetrics(NoteStart(k), ok, rev[k]) : k \in Keys, ok \in BOOLEAN}

\* C7: from every reachable state, a second update(key, record) with the same
\* record leaves the map and the total as the first one left them.
C7_UpdateIsIdempotent ==
    /\ [](\A k \in Keys, m \in Records :
             LET once == update(data, vaultMetrics, k, m)
             IN  update(once.data, once.total, k, m) = once)
    /\ [][last'.op = "again" => data' = data /\ vaultMetrics' = vaultMetrics]_vars

\* update was called twice in a row with the same key and record
C7_Witness == last.op = "again" /\ vaultMetrics.files >= 1

\* the number of tokens the Markdown tokenizer is specified to return: the
\* candidates whose normalization, run on the tokenizer, is not empty
ClaimedTokenCount(content) ==
    IF AllIn(content, Whitespace) THEN 0
    ELSE Len(SelectSeq(Candidates(content), LAMBDA t : t # "" /\ StripLoop(Bound, t, StripPass(Bound, t)).val # ""))

\* the specified word count of sections of a content
RECURSIVE ClaimedSectionSum(_, _, _)
ClaimedSectionSum(content, sections, i) ==
    IF i > Len(sections) THEN 0
    ELSE (IF Tokenizer(sections[i].type) = "markdown"
          THEN ClaimedTokenCount(Substring(content, sections[i].start, sections[i].end))
          ELSE 0) + ClaimedSectionSum(content, sections, i + 1)

RECURSIVE ClaimedWordSum(_)
ClaimedWordSum(S) ==
    IF S = {} THEN 0
    ELSE LET k == CHOOSE x \in S : TRUE
         IN  ClaimedSectionSum(Content(k, rev[k]), Sections(k, rev[k]), 1) + ClaimedWordSum(S \ {k})

IsMarkdownExtension(path) == Extension(path) \in {"md", "Md", "mD", "MD"}

\* start() queued the files of the vault, none of them excluded, all with
\* parsed structure; the backlog was drained with no notification, no update
\* call and no failed read in between
DrainedFromStart ==
    /\ started
    /\ events = 0
    /\ faults = 0
    /\ backlog = << >>
    /\ \A d \in Drains : pc[d] = "idle"
    /\ last.op = "exit"
    /\ \A k \in Keys : vault[k] => ~isExcluded(k) /\ indexed[k]

\* C8: after such a drain the total has files = number of keys, notes =
\* number of keys with extension md, attachments = number of the other keys
\* and words = the sum of the notes' token counts; for A.md "Hello world.",
\* B.png and C.md "One two three four." that is 3, 2, 1 and 6.
C8_OneDrainTotals ==
    DrainedFromStart =>
       LET S == {k \in Keys : vault[k]} IN
       /\ vaultMetrics.files = Cardinality(S)
       /\ vaultMetrics.notes = Cardinality({k \in S : IsMarkdownExtension(k)})
       /\ vaultMetrics.attachments = Cardinality({k \in S : ~IsMarkdownExtension(k)})
       /\ vaultMetrics.words = ClaimedWordSum({k \in S : IsMarkdownExtension(k)})
       /\ S = {"A.md", "B.png", "C.md"} =>
             /\ vaultMetrics.files = 3
             /\ vaultMetrics.notes = 2
             /\ vaultMetrics.attachments = 1
             /\ vaultMetrics.words = 6

FilePushOps == {"create", "modify", "changed", "delete"}

\* C9: after created, modified, deleted, resolve or changed the file's path
\* is in the backlog once, after renamed the new and the old path are, and
\* the notification did nothing to the backlog but append these paths.
C9_NotificationsPushPaths ==
    /\ [](last.op \in FilePushOps => Count(backlog, last.key) = 1)
    /\ [](last.op = "rename" => Count(backlog, last.key) = 1 /\ Count(backlog, last.old) = 1)
    /\ [][last'.op \in FilePushOps =>
             backlog' \in {backlog, Append(backlog, last'.key)}]_vars
    /\ [][last'.op = "rename" =>
             backlog' \in {backlog, Append(backlog, last'.key), Append(backlog, last'.old),
                           Append(Append(backlog, last'.key), last'.old)}]_vars

\* a rename appended the new path and then the old path
C9_Witness ==
    /\ last.op = "rename"
    /\ Len(backlog) >= 3
    /\ backlog[Len(backlog) - 1] = last.key
    /\ backlog[Len(backlog)] = last.old

\* a record as collect is specified to produce it for path
WellFormedRecord(m, path) ==
    /\ m.files = 1
    /\ m.notes + m.attachments = 1
    /\ IsMarkdownExtension(path) => m.notes = 1 /\ m.attachments = 0
    /\ ~IsMarkdownExtension(path) =>
          /\ m.notes = 0
          /\ m.attachments = 1
          /\ m.links = 0
          /\ m.words = 0
          /\ m.tags = 0
          /\ m.quality = 0

\* C10: the record a drain has just collected and applied has files = 1 and
\* exactly one of notes and attachments set: notes for an extension md in any
\* letter case, attachments (with links, words, tags and quality 0) otherwise.
C10_CollectedRecordShape ==
    last.op \in {"ok", "rejected", "attachment"} => WellFormedRecord(data[last.key], last.key)

\* a note whose extension is written MD was collected
C10_Witness ==
    /\ last.op = "ok"
    /\ last.key = "archive/old.MD"
    /\ data[last.key].notes = 1


\* C11: the words of the record a fulfilled read produces are the sum, over
\* the sections of the note, of the number of tokens of the section's
\* substring: Markdown tokens for paragraph, heading, list, blockquote and
\* callout, 0 for the unit types, 0 for a type with no tokenizer, the other
\* sections being counted all the same.
C11_WordsAreSectionSum ==
    [][\A d \in Drains :
          ReadDone(d, "ok") =>
             /\ cur[d].path \in DOMAIN data'
             /\ data'[cur[d].path].words =
                   ClaimedSectionSum(Content(cur[d].path, rev[cur[d].path]),
                                     Sections(cur[d].path, cur[d].mrev), 1)]_vars

\* C12: an exception of getFileCache never leaves collect, and the step in
\* which getFileCache throws for the dequeued key is the step of a null
\* result: the map, the total and the suspended collections stay as they
\* were and the invocation stands at the loop test.
C12_ThrowingCacheIsNull ==
    /\ [](last.op # "escaped")
    /\ [][last'.op = "throws" =>
             /\ data' = data
             /\ vaultMetrics' = vaultMetrics
             /\ cur' = cur
             /\ backlog' = Tail(backlog)
             /\ \E d \in Drains : pc'[d] = "loop" /\ \A e \in Drains \ {d} : pc'[e] = pc[e]]_vars

\* getFileCache threw for a file of the vault while other keys are recorded,
\* and the key has no record
C12_Witness ==
    /\ last.op = "throws"
    /\ vault[last.key]
    /\ last.key \notin DOMAIN data
    /\ DOMAIN data # {}

Bracketed(tokens) ==
    {i \in 1..Len(tokens) : Includes(tokens[i], "[[") \/ Includes(tokens[i], "]]")}

\* C14: markdown_tokenize("**_word_**") returns <<"word">>,
\* markdown_tokenize("==x==") returns <<"x">>, and
\* markdown_tokenize("[[Page Name]]") returns tokens with no wiki bracket.
C14_StripsToFixedPoint ==
    /\ input = "**_word_**" => output.ok /\ output.val = <<"word">>
    /\ input = "==x==" => output.ok /\ output.val = <<"x">>
    /\ input = "[[Page Name]]" =>
          output.ok /\ output.val # << >> /\ Bracketed(output.val) = {}

\* the record collect produces for key k from the state the file is in now
LatestRecord(k) ==
    IF FileType[k] = "Attachment" THEN FileMetrics(k)
    ELSE NoteMetrics(NoteStart(k), TRUE, rev[k])

\* a collection of key k is suspended on its content read
InFlight(k) == \E d \in Drains : pc[d] = "reading" /\ cur[d].path = k

\* the backlog is empty, no invocation is running and no read has failed
Quiescent ==
    /\ started
    /\ backlog = << >>
    /\ \A d \in Drains : pc[d] = "idle"
    /\ faults = 0

\* C15: a notification for a key that was dequeued and whose collection is
\* suspended on its read puts the key in the backlog again; and once the
\* backlog is empty and no invocation is running, the record stored for every
\* key that is not excluded and resolves to a file with parsed structure is
\* the one collect produces from the file's latest state, also when the
\* timer started an invocation while another was suspended.
C15_QuiescentRecordsAreLatest ==
    /\ [][\A k \in Keys :
             (/\ last'.op \in FilePushOps \cup {"rename"}
              /\ k \in {last'.key, last'.old}
              /\ InFlight(k)
              /\ k \notin Range(backlog))
                => backlog'[Len(backlog')] = k \/ backlog'[Len(backlog') - 1] = k]_vars
    /\ [](Quiescent =>
            \A k \in Keys :
               (vault[k] /\ indexed[k] /\ ~isExcluded(k) /\ k \in DOMAIN data)
                  => data[k] = LatestRecord(k))

\* a drain has just applied a record for key k
Applied(k) == last.op \in {"ok", "rejected", "attachment"} /\ last.key = k

\* C16: with the timer firing and the reads completing, every key in the
\* backlog is eventually out of it, and every queued key that is not excluded
\* eventually has a record applied, unless it stops resolving to a file with
\* parsed structure; excluded keys queued ahead of it do not prevent this.
C16_BacklogIsEventuallyDrained ==
    /\ \A k \in Keys : (k \in Range(backlog)) ~> (k \notin Range(backlog))
    /\ \A k \in Keys :
          (k \in Range(backlog) /\ ~isExcluded(k))
             ~> (Applied(k) \/ ~vault[k] \/ ~indexed[k])

\* a record was applied for a key that was queued behind an excluded key
C16_Witness ==
    /\ excludeDirectories = "archive"
    /\ vault["archive/old.MD"]
    /\ Applied("C.md")
    /\ backlog = << >>
    /\ events = 0

\* the directory tokens the setting lists; each value of ExcludeConfigs
\* lists at most one
ConfiguredTokens == IF excludeDirectories = "" THEN {} ELSE {excludeDirectories}

\* a segment of the path is one of the configured tokens
SegmentIsToken(path) ==
    \E i \in 1..Len(SplitOn(path, "/")) : SplitOn(path, "/")[i] \in ConfiguredTokens

\* C17: the step that dequeues a key skips it exactly when one of its
\* segments equals a configured token; a key with no such segment is
\* processed.
C17_SkipsExactlyOnSegmentMatch ==
    [][(backlog # << >> /\ backlog' = Tail(backlog))
          => (last'.op = "excluded" <=> SegmentIsToken(Head(backlog)))]_vars

\* the place of key k in a backlog that holds it
Pos(bl, k) == CHOOSE i \in 1..Len(bl) : bl[i] = k

\* C18: a step that takes a key out of the backlog takes its first key and
\* processes that key; no step changes the order of two keys that stay
\* queued, and a key a step adds stands behind every key that was queued.
C18_DequeuedInArrivalOrder ==
    [][/\ Len(backlog') < Len(backlog) =>
             backlog' = Tail(backlog) /\ last'.key = Head(backlog)
       /\ \A k1, k2 \in Range(backlog) \cap Range(backlog') :
             Pos(backlog, k1) < Pos(backlog, k2) => Pos(backlog', k1) < Pos(backlog', k2)
       /\ \A k1 \in Range(backlog) \cap Range(backlog'), k2 \in Range(backlog') \ Range(backlog) :
             Pos(backlog', k1) < Pos(backlog', k2)]_vars

\* B.png, queued by start(), was dequeued ahead of C.md and of A.md, which a
\* notification queued again behind them
C18_Witness ==
    /\ last.op = "attachment"
    /\ last.key = "B.png"
    /\ backlog = <<"C.md", "A.md">>
    /\ events > 0

\* C19: the step of start() leaves the map empty, the total zero and the
\* backlog holding each file of the vault once and no folder, whatever the
\* map and the total held before.
C19_StartResets ==
    [][last'.op = "start" =>
          /\ data' = << >>
          /\ vaultMetrics' = ZeroMetrics
          /\ \A k \in Keys : Count(backlog', k) = IF vault[k] THEN 1 ELSE 0
          /\ Range(backlog') \subseteq Keys
          /\ FolderPath \notin Range(backlog')]_vars

\* start() has just run on a collector that update had been called on
C19_Witness ==
    /\ last.op = "start"
    /\ events > 0
    /\ data = << >>
    /\ vaultMetrics = ZeroMetrics
    /\ Len(backlog) >= 3

=========================================================================
